---- MODULE Spec2Model ----
(***************************************************************************)
(* Model of heroku_env.py: dump_env (remote config -> env file) and        *)
(* upload_env (env file -> remote config, with the --set-alt directive).   *)
(* Text is modelled as sequences of one-character strings, so that         *)
(* strip(), startswith(), "in", split(sep, 1), join() and format() are     *)
(* computed as Python computes them.  One process run goes from a Start    *)
(* action to pc = "exit"; the env file outlives the run.                   *)
(***************************************************************************)
EXTENDS Integers, Sequences, FiniteSets, TLC

VARIABLES
  file,           \* content of the env file on disk (NoFile: cannot be opened)
  touched,        \* history: the run has changed the content of the env file
  io,             \* history: how the run's write of the env file went, or "none"
  dumped,         \* history: the mapping whose dump wrote file, if one did
  op,             \* subcommand of the current run: "dump" or "upload"
  pc,             \* position of the current run
  set_alt,        \* upload_env parameter set_alt
  e,              \* the lines of the file opened by upload_env
  idx,            \* number of the next line of e to be read
  config_dict,    \* upload_env local config_dict
  use_alt,        \* upload_env local use_alt
  alt_value,      \* upload_env local alt_value
  prev,           \* history: the parser locals before the last line read
  echo,           \* lines written by click.echo / click.secho
  calls,          \* remote API calls issued by this run, in order
  error,          \* exception the run ended with, or "none"
  remote,         \* what the remote service answered in get_heroku_app
  update_result   \* upload_env local update_result

vars == <<file, touched, io, dumped, op, pc, set_alt, e, idx, config_dict,
          use_alt, alt_value, prev, echo, calls, error, remote, update_result>>

(* ---------------------------- bounds ----------------------------------- *)
MaxLines == 3
MaxVars == 2
MaxRemaining == 1

(* ---------------------------- text ------------------------------------- *)
NL == "\n"
Whitespace == {" ", "\t", "\n", "\r"}
Hash == <<"#">>
Eq == <<"=">>
AltTok == <<"a", "l", "t", "_", "v", "a", "l", "u", "e", "=">>
None == <<"None">>
NoneText == <<"N", "o", "n", "e">>
NoFile == <<"ENOENT">>
NoDump == [known |-> FALSE, items |-> <<>>]
DumpOf(m) == [known |-> TRUE, items |-> m]
EmptyDict == [k \in {} |-> <<>>]

RECURSIVE LStrip(_)
LStrip(s) ==
  IF s = <<>> THEN s
  ELSE IF Head(s) \in Whitespace THEN LStrip(Tail(s)) ELSE s

RECURSIVE RStrip(_)
RStrip(s) ==
  IF s = <<>> THEN s
  ELSE IF s[Len(s)] \in Whitespace THEN RStrip(SubSeq(s, 1, Len(s) - 1)) ELSE s

Strip(s) == RStrip(LStrip(s))

StartsWith(s, t) == Len(s) >= Len(t) /\ SubSeq(s, 1, Len(t)) = t

Occurrences(s, t) ==
  {i \in 1..(Len(s) - Len(t) + 1) : SubSeq(s, i, i + Len(t) - 1) = t}

Contains(s, t) == Occurrences(s, t) # {}

FirstOcc(s, t) ==
  CHOOSE i \in Occurrences(s, t) : \A j \in Occurrences(s, t) : i <= j

SplitAt(s, t, i) == <<SubSeq(s, 1, i - 1), SubSeq(s, i + Len(t), Len(s))>>

SplitFirst(s, t) == SplitAt(s, t, FirstOcc(s, t))

RECURSIVE FileLines(_)
FileLines(f) ==
  IF f = <<>> THEN <<>>
  ELSE IF Contains(f, <<NL>>)
       THEN LET i == FirstOcc(f, <<NL>>)
            IN <<SubSeq(f, 1, i)>> \o FileLines(SubSeq(f, i + 1, Len(f)))
       ELSE <<f>>

RECURSIVE Join(_, _)
Join(ss, sep) ==
  IF ss = <<>> THEN <<>>
  ELSE IF Len(ss) = 1 THEN ss[1]
  ELSE ss[1] \o sep \o Join(Tail(ss), sep)

Format(v) == IF v = None THEN NoneText ELSE v

DictSet(d, k, v) == [x \in (DOMAIN d) \cup {k} |-> IF x = k THEN v ELSE d[x]]

(* ---------------------------- inputs ----------------------------------- *)
\* Lines an env file is made of (each is followed by a newline in the file).
LineSet ==
  { <<>>,                                    \* empty line
    <<" ", "\t">>,                           \* whitespace only
    <<"#", "c">>,                            \* plain comment
    Hash \o AltTok,                          \* directive, empty value
    <<"#", " ">> \o AltTok \o <<"-", " ">>,   \* directive, deletion marker
    Hash \o AltTok \o AltTok,                \* directive, value "alt_value="
    <<"A", "=", "x">>,
    <<" ", "A", "=", "y", "=", "w", " ">>,
    <<"B", "=">>,
    <<"=", "v">>,                            \* empty key
    <<"A", "B">> }                           \* no "=": malformed

\* Files of exactly n lines, and files of at most n lines.
RECURSIVE FilesOfLen(_)
FilesOfLen(n) ==
  IF n = 0 THEN {<<>>}
  ELSE {f \o l \o <<NL>> : f \in FilesOfLen(n - 1), l \in LineSet}

FilesOf(n) == UNION {FilesOfLen(k) : k \in 0..n}

\* Env files an upload may be given.
UploadFiles == FilesOf(MaxLines) \cup {NoFile}

\* Env files that may be on disk before the first run of dump or upload.
SeedFiles == {NoFile, <<>>, <<NL, "A", "B", NL, "#", "c", NL, "A", "=", "x", NL>>}

\* Config vars the remote service may hold: keys and values of a dump.
RemoteKeys == { <<"A">>, <<"B">>, <<"#", "A">> }
RemoteValues == { <<"x">>, <<>>, <<"x", " ">>, <<" ", "x">>, None }

\* A dict in iteration order: a sequence of <<key, value>> with distinct keys.
HasKey(m, k) == \E i \in 1..Len(m) : m[i][1] = k

RECURSIVE ItemsOf(_)
ItemsOf(n) ==
  IF n = 0 THEN {<<>>}
  ELSE LET shorter == ItemsOf(n - 1)
       IN shorter \cup
          UNION {{Append(m, <<k, v>>) : k \in {x \in RemoteKeys : ~HasKey(m, x)},
                                        v \in RemoteValues}
                 : m \in {g \in shorter : Len(g) = n - 1}}

DictOf(m) ==
  [k \in {m[i][1] : i \in 1..Len(m)} |-> m[CHOOSE i \in 1..Len(m) : m[i][1] = k][2]]

(* ---------------------------- one run ---------------------------------- *)
NotContacted == [contacted |-> FALSE, apps |-> "ok", remaining |-> 0]
NoPrev == [read |-> FALSE, config_dict |-> EmptyDict, use_alt |-> FALSE,
           alt_value |-> None, echo |-> <<>>]

Locals ==
  /\ e' = IF op' = "upload" /\ file # NoFile THEN FileLines(file) ELSE <<>>
  /\ idx' = 1
  /\ config_dict' = EmptyDict
  /\ use_alt' = FALSE
  /\ alt_value' = None
  /\ prev' = NoPrev
  /\ echo' = <<>>
  /\ calls' = <<>>
  /\ remote' = NotContacted
  /\ update_result' = EmptyDict
  /\ touched' = FALSE
  /\ io' = "none"

Fresh ==
  /\ touched = FALSE
  /\ io = "none"
  /\ dumped = NoDump
  /\ op = "none"
  /\ pc = "idle"
  /\ set_alt = FALSE
  /\ e = <<>>
  /\ idx = 1
  /\ config_dict = EmptyDict
  /\ use_alt = FALSE
  /\ alt_value = None
  /\ prev = NoPrev
  /\ echo = <<>>
  /\ calls = <<>>
  /\ error = "none"
  /\ remote = NotContacted
  /\ update_result = EmptyDict

Init == file \in SeedFiles /\ Fresh

InitUpload == file \in UploadFiles /\ Fresh

\* The command line starts dump_env.
StartDump ==
  /\ pc \in {"idle", "exit"}
  /\ op' = "dump"
  /\ pc' = "get_app"
  /\ error' = "none"
  /\ Locals
  /\ UNCHANGED <<file, dumped, set_alt>>

\* The command line starts upload_env, which opens the env file for reading.
StartUpload ==
  /\ pc \in {"idle", "exit"}
  /\ op' = "upload"
  /\ \E sa \in BOOLEAN : set_alt' = sa
  /\ IF file = NoFile
     THEN pc' = "exit" /\ error' = "IOError"
     ELSE pc' = "parse" /\ error' = "none"
  /\ Locals
  /\ UNCHANGED <<file, dumped>>

(* ---------------------------- upload_env: the parser ------------------- *)
Confirm(key) == [msg |-> "confirm", key |-> key]
Notice(m) == [msg |-> m, key |-> <<>>]

\* AtEOF leaving the loop one line early.
AtEOFEarly(i, n) == i >= n

\* for line in e
AtEOF(i, n) == i > n

\* line = line.strip()
CurrentLine == Strip(e[idx])

Reading == pc = "parse" /\ ~AtEOF(idx, Len(e))

\* ParseComment without the set_alt test.
ParseCommentAnyMode(line, sa, ua, av) ==
  IF Contains(line, AltTok)
  THEN [use_alt |-> TRUE, alt_value |-> SplitFirst(line, AltTok)[2]]
  ELSE [use_alt |-> ua, alt_value |-> av]

\* ParseComment with a plain comment disarming the flag.
ParseCommentDisarm(line, sa, ua, av) ==
  IF sa /\ Contains(line, AltTok)
  THEN [use_alt |-> TRUE, alt_value |-> SplitFirst(line, AltTok)[2]]
  ELSE [use_alt |-> FALSE, alt_value |-> av]

\* The comment branch: what it leaves in use_alt and alt_value.
ParseComment(line, sa, ua, av) ==
  IF sa /\ Contains(line, AltTok)
  THEN [use_alt |-> TRUE, alt_value |-> SplitFirst(line, AltTok)[2]]
  ELSE [use_alt |-> ua, alt_value |-> av]

\* AltValueFor without the deletion marker.
AltValueForNoMarker(av) == av

\* The value an armed directive gives the entry (alt_value is not '').
AltValueFor(av) == IF av = <<"-">> THEN None ELSE av

\* Record without the test for an empty key.
RecordAnyKey(d, key, value) ==
  [config_dict |-> DictSet(d, key, value), confirm |-> <<Confirm(key)>>]

\* if key: config_dict[key] = value, and the confirmation
Record(d, key, value) ==
  IF key # <<>>
  THEN [config_dict |-> DictSet(d, key, value), confirm |-> <<Confirm(key)>>]
  ELSE [config_dict |-> d, confirm |-> <<>>]

\* The key=value branch: what it leaves in config_dict and use_alt, and
\* the confirmation it prints.
ParseKV(line, d, ua, av) ==
  LET kv == SplitFirst(line, Eq)
      key == kv[1]
  IN IF ua
     THEN IF av = <<>>
          THEN [config_dict |-> d, use_alt |-> ua, confirm |-> <<>>]
          ELSE LET r == Record(d, key, AltValueFor(av))
               IN [config_dict |-> r.config_dict, use_alt |-> FALSE,
                   confirm |-> r.confirm]
     ELSE LET r == Record(d, key, kv[2])
          IN [config_dict |-> r.config_dict, use_alt |-> ua, confirm |-> r.confirm]

Remember ==
  prev' = [read |-> TRUE, config_dict |-> config_dict, use_alt |-> use_alt,
           alt_value |-> alt_value, echo |-> echo]

Frame == UNCHANGED <<file, touched, io, dumped, op, set_alt, e, calls, error, remote,
                     update_result>>

SkipBlank ==
  /\ Reading
  /\ CurrentLine = <<>>
  /\ idx' = idx + 1
  /\ Remember
  /\ UNCHANGED <<pc, config_dict, use_alt, alt_value, echo>>
  /\ Frame

Comment ==
  /\ Reading
  /\ CurrentLine # <<>>
  /\ StartsWith(CurrentLine, Hash)
  /\ LET r == ParseComment(CurrentLine, set_alt, use_alt, alt_value)
     IN use_alt' = r.use_alt /\ alt_value' = r.alt_value
  /\ idx' = idx + 1
  /\ Remember
  /\ UNCHANGED <<pc, config_dict, echo>>
  /\ Frame

KeyValue ==
  /\ Reading
  /\ CurrentLine # <<>>
  /\ ~StartsWith(CurrentLine, Hash)
  /\ Contains(CurrentLine, Eq)
  /\ LET r == ParseKV(CurrentLine, config_dict, use_alt, alt_value)
     IN /\ config_dict' = r.config_dict
        /\ use_alt' = r.use_alt
        /\ echo' = echo \o r.confirm
  /\ idx' = idx + 1
  /\ Remember
  /\ UNCHANGED <<pc, alt_value>>
  /\ Frame

Malformed ==
  /\ Reading
  /\ CurrentLine # <<>>
  /\ ~StartsWith(CurrentLine, Hash)
  /\ ~Contains(CurrentLine, Eq)
  /\ echo' = Append(echo, Notice("Skipping line : Not of the form key=value"))
  /\ idx' = idx + 1
  /\ Remember
  /\ UNCHANGED <<pc, config_dict, use_alt, alt_value>>
  /\ Frame

\* The loop ends, the file is closed, upload_env goes on to get_heroku_app.
EndOfFile ==
  /\ pc = "parse"
  /\ AtEOF(idx, Len(e))
  /\ pc' = "get_app"
  /\ UNCHANGED <<idx, config_dict, use_alt, alt_value, prev, echo>>
  /\ Frame

(* ---------------------------- the remote service ----------------------- *)
Call(name, arg) == [name |-> name, arg |-> arg]

\* RateLimitExceeded with the comparison off by one.
RateLimitExceededOffByOne(remaining) == remaining < 0

\* raise_for_rate_limit
RateLimitExceeded(remaining) == remaining < 1

\* What heroku_conn.apps()[app_name] does: it returns the app, or raises
\* HTTPError (credential rejected) or KeyError (no such app).
AppsOutcomes == {"ok", "HTTPError", "KeyError"}

\* get_heroku_app.  The service's answers are the outcome of the app lookup
\* and the number of calls remaining for the key.
GetHerokuApp ==
  /\ pc = "get_app"
  /\ \E apps \in AppsOutcomes, remaining \in 0..MaxRemaining :
       /\ remote' = [contacted |-> TRUE, apps |-> apps, remaining |-> remaining]
       /\ IF apps = "HTTPError"
          THEN /\ calls' = Append(calls, Call("apps", EmptyDict))
               /\ error' = "InvalidAPIKeyError"
               /\ pc' = "exit"
          ELSE IF apps = "KeyError"
          THEN /\ calls' = Append(calls, Call("apps", EmptyDict))
               /\ error' = "InvalidHerokuAppError"
               /\ pc' = "exit"
          ELSE /\ calls' = calls \o <<Call("apps", EmptyDict),
                                      Call("ratelimit_remaining", EmptyDict)>>
               /\ IF RateLimitExceeded(remaining)
                  THEN error' = "RateLimitExceededError" /\ pc' = "exit"
                  ELSE error' = error /\ pc' = (IF op = "dump" THEN "config" ELSE "update")
  /\ UNCHANGED <<file, touched, io, dumped, op, set_alt, e, idx, config_dict, use_alt,
                 alt_value, prev, echo, update_result>>

(* ---------------------------- dump_env --------------------------------- *)
\* Content with the entries joined by a space.
ContentSpaceJoined(m) ==
  Join([i \in 1..Len(m) |-> m[i][1] \o Eq \o Format(m[i][2])], <<" ">>)

\* content = ["{}={}".format(k, v) ...]; '\n'.join(content)
Content(m) == Join([i \in 1..Len(m) |-> m[i][1] \o Eq \o Format(m[i][2])], <<NL>>)

IOOutcomes == {"ok", "open_fails", "write_fails"}

\* WriteEnv returning True whatever happened.
WriteEnvUnchecked(env_dict, old, o) ==
  IF o = "ok" THEN [file |-> Content(env_dict), written |-> TRUE]
  ELSE IF o = "open_fails" THEN [file |-> old, written |-> TRUE]
  ELSE [file |-> <<>>, written |-> TRUE]

\* write_env: the file it leaves and the value it returns.  open(.., 'w')
\* truncates, so a write that fails after the open leaves an empty file.
WriteEnv(env_dict, old, o) ==
  IF o = "ok" THEN [file |-> Content(env_dict), written |-> TRUE]
  ELSE IF o = "open_fails" THEN [file |-> old, written |-> FALSE]
  ELSE [file |-> <<>>, written |-> FALSE]

\* write_env(app_instance.config().to_dict(), env_file) and the summary
DumpConfig ==
  /\ pc = "config"
  /\ \E m \in ItemsOf(MaxVars), o \in IOOutcomes :
       LET w == WriteEnv(m, file, o)
       IN /\ calls' = Append(calls, Call("get_config", EmptyDict))
          /\ file' = w.file
          /\ touched' = (w.file # file)
          /\ io' = o
          /\ dumped' = IF o = "ok" THEN DumpOf(m) ELSE IF o = "open_fails" THEN dumped ELSE NoDump
          /\ echo' = Append(echo, IF w.written
                                  THEN Notice("Config vars dumped successfully")
                                  ELSE Notice("Config vars dump failed. Please try again."))
  /\ pc' = "exit"
  /\ UNCHANGED <<op, set_alt, e, idx, config_dict, use_alt, alt_value, prev,
                 error, remote, update_result>>

(* ---------------------------- upload_env: the update ------------------- *)
\* What app.update_config(..).to_dict() may return.
UpdateResults == {EmptyDict, [k \in {<<"A">>} |-> <<"x">>]}

\* UpdateFailed taking every result for a success.
UpdateFailedNever(result) == FALSE

\* if not update_result
UpdateFailed(result) == result = EmptyDict

UpdateConfig ==
  /\ pc = "update"
  /\ calls' = Append(calls, Call("update_config", config_dict))
  /\ \E result \in UpdateResults :
       /\ update_result' = result
       /\ IF UpdateFailed(result)
          THEN error' = "HerokuRunError" /\ echo' = echo
          ELSE error' = error /\ echo' = Append(echo, Notice("Config vars updated successfully."))
  /\ pc' = "exit"
  /\ UNCHANGED <<file, touched, io, dumped, op, set_alt, e, idx, config_dict, use_alt,
                 alt_value, prev, remote>>

Next ==
  \/ StartDump
  \/ StartUpload
  \/ SkipBlank
  \/ Comment
  \/ KeyValue
  \/ Malformed
  \/ EndOfFile
  \/ GetHerokuApp
  \/ DumpConfig
  \/ UpdateConfig

Spec == Init /\ [][Next]_vars

\* The upload subcommand alone, on any env file.
NextUpload ==
  \/ StartUpload
  \/ SkipBlank
  \/ Comment
  \/ KeyValue
  \/ Malformed
  \/ EndOfFile
  \/ GetHerokuApp
  \/ UpdateConfig

SpecUpload == InitUpload /\ [][NextUpload]_vars

(* ======================================================================= *)
(* Properties                                                              *)
(* ======================================================================= *)
\* Classes of a stripped line, stated on the text alone.
IsBlank(l) == l = <<>>
IsComment(l) == l # <<>> /\ l[1] = "#"
IsDirective(l) == IsComment(l) /\ Contains(l, AltTok)
HasEq(l) == \E i \in 1..Len(l) : l[i] = "="
IsKeyValue(l) == ~IsBlank(l) /\ ~IsComment(l) /\ HasEq(l)
IsMalformed(l) == ~IsBlank(l) /\ ~IsComment(l) /\ ~HasEq(l)
EqPos(l) == CHOOSE i \in 1..Len(l) : l[i] = "=" /\ \A j \in 1..(i - 1) : l[j] # "="
KeyOf(l) == SubSeq(l, 1, EqPos(l) - 1)
ValueOf(l) == SubSeq(l, EqPos(l) + 1, Len(l))

\* The line the parser has just processed (meaningful when prev.read).
LastLine == Strip(e[idx - 1])
JustRead == op = "upload" /\ prev.read

\* The text after the first "alt_value=" of the most recent directive
\* comment among the first n lines (None when there is none).
RECURSIVE LastDirectiveValue(_, _)
LastDirectiveValue(lines, n) ==
  IF n = 0 THEN None
  ELSE LET l == Strip(lines[n])
       IN IF IsDirective(l)
          THEN LET p == CHOOSE i \in 1..Len(l) :
                          /\ SubSeq(l, i, i + Len(AltTok) - 1) = AltTok
                          /\ \A j \in 1..(i - 1) : SubSeq(l, j, j + Len(AltTok) - 1) # AltTok
               IN SubSeq(l, p + Len(AltTok), Len(l))
          ELSE LastDirectiveValue(lines, n - 1)

\* The mapping obtained by replaying, in file order, the key=value lines with
\* a non-empty key among the first n lines.
RECURSIVE Replay(_, _)
Replay(lines, n) ==
  IF n = 0 THEN EmptyDict
  ELSE LET l == Strip(lines[n])
           d == Replay(lines, n - 1)
       IN IF IsKeyValue(l) /\ KeyOf(l) # <<>>
          THEN [k \in (DOMAIN d) \cup {KeyOf(l)} |->
                  IF k = KeyOf(l) THEN ValueOf(l) ELSE d[k]]
          ELSE d

CallNames == [i \in 1..Len(calls) |-> calls[i].name]
Called(name) == \E i \in 1..Len(calls) : calls[i].name = name
Echoed(m) == \E i \in 1..Len(echo) : echo[i].msg = m
IsConfirm(m) == m.msg = "confirm"
Confirms(out) == SelectSeq(out, IsConfirm)
Success == "Config vars updated successfully."
DumpOk == "Config vars dumped successfully"
DumpFailed == "Config vars dump failed. Please try again."

\* C1: with alt mode on, once a key=value line has been processed while the
\* use-alt flag was set, the flag is false, whatever the captured alternate
\* value and the key are.
C1_FlagConsumed ==
  (JustRead /\ set_alt /\ IsKeyValue(LastLine) /\ prev.use_alt) => ~use_alt

\* C2: with alt mode on, a line K=V with non-empty K processed while the
\* use-alt flag is set, A being the text after the first "alt_value=" of the
\* most recent directive comment before it: A empty leaves the mapping as it
\* was, A = "-" gives K -> null, any other A gives K -> A (V is ignored).
C2_AltApplied ==
  (JustRead /\ set_alt /\ IsKeyValue(LastLine) /\ prev.use_alt
     /\ KeyOf(LastLine) # <<>>)
  => LET A == LastDirectiveValue(e, idx - 2)
         K == KeyOf(LastLine)
         old == prev.config_dict
     IN /\ A # None
        /\ A = <<>> => config_dict = old
        /\ A = <<"-">> =>
             config_dict = [k \in (DOMAIN old) \cup {K} |-> IF k = K THEN None ELSE old[k]]
        /\ A \notin {<<>>, <<"-">>} =>
             config_dict = [k \in (DOMAIN old) \cup {K} |-> IF k = K THEN A ELSE old[k]]

C2_Witness ==
  /\ JustRead /\ set_alt /\ IsKeyValue(LastLine) /\ prev.use_alt
  /\ KeyOf(LastLine) = <<"A">>
  /\ LastDirectiveValue(e, idx - 2) = <<"-">>
  /\ "A" \in {k[1] : k \in DOMAIN prev.config_dict}
  /\ config_dict[<<"A">>] = None

\* C3: with alt mode off the use-alt flag is never set and the mapping is
\* the replay of the key=value lines with a non-empty key read so far, a
\* later line overwriting an earlier one; comments add nothing.
C3_AltOffReplay ==
  (op = "upload" /\ ~set_alt /\ pc # "idle")
  => /\ ~use_alt
     /\ config_dict = Replay(e, idx - 1)

C3_Witness ==
  /\ op = "upload" /\ ~set_alt /\ pc = "get_app"
  /\ \E i \in 1..Len(e) : IsDirective(Strip(e[i])) /\ i < Len(e)
                            /\ IsKeyValue(Strip(e[i + 1]))
  /\ config_dict # EmptyDict

\* C8: a blank line, a non-directive comment or a malformed line leaves the
\* mapping, the use-alt flag and the captured alternate value unchanged and
\* does not end the run with an error.
C8_SkippedLinesFrame ==
  (JustRead /\ ( \/ IsBlank(LastLine)
                 \/ IsComment(LastLine) /\ ~(set_alt /\ IsDirective(LastLine))
                 \/ IsMalformed(LastLine) ))
  => /\ config_dict = prev.config_dict
     /\ use_alt = prev.use_alt
     /\ alt_value = prev.alt_value
     /\ pc = "parse" => error = "none"
     /\ error \in {"none", "InvalidAPIKeyError", "InvalidHerokuAppError",
                   "RateLimitExceededError", "HerokuRunError"}

C8_Witness ==
  /\ JustRead /\ set_alt /\ idx = 4 /\ pc = "parse"
  /\ IsDirective(Strip(e[1]))
  /\ IsMalformed(Strip(e[2]))
  /\ IsComment(LastLine) /\ ~IsDirective(LastLine)
  /\ use_alt /\ prev.use_alt

\* C9: the mapping never holds an entry with the empty key, during parsing
\* and in the argument of the remote update; a line "=value" adds nothing
\* and prints nothing; every confirmation names a key of the mapping.
C9_NoEmptyKey ==
  /\ <<>> \notin DOMAIN config_dict
  /\ \A i \in 1..Len(calls) : <<>> \notin DOMAIN calls[i].arg
  /\ \A i \in 1..Len(echo) :
       echo[i].msg = "confirm" => echo[i].key \in DOMAIN config_dict
  /\ (JustRead /\ IsKeyValue(LastLine) /\ KeyOf(LastLine) = <<>>)
       => config_dict = prev.config_dict /\ Confirms(echo) = Confirms(prev.echo)

C9_Witness ==
  /\ JustRead /\ set_alt /\ prev.use_alt /\ alt_value \notin {<<>>, None}
  /\ IsKeyValue(LastLine) /\ KeyOf(LastLine) = <<>>
  /\ ~use_alt

\* The whole file parsed as upload_env parses it: the locals after n lines.
RECURSIVE ParseTo(_, _, _)
ParseTo(lines, sa, n) ==
  IF n = 0 THEN [config_dict |-> EmptyDict, use_alt |-> FALSE, alt_value |-> None]
  ELSE LET l == Strip(lines[n])
           s0 == ParseTo(lines, sa, n - 1)
       IN IF IsComment(l)
          THEN LET r == ParseComment(l, sa, s0.use_alt, s0.alt_value)
               IN [s0 EXCEPT !.use_alt = r.use_alt, !.alt_value = r.alt_value]
          ELSE IF IsKeyValue(l)
          THEN LET r == ParseKV(l, s0.config_dict, s0.use_alt, s0.alt_value)
               IN [s0 EXCEPT !.config_dict = r.config_dict, !.use_alt = r.use_alt]
          ELSE s0

\* C6: an upload issues update_config at most once, after the last line of
\* the file has been processed and after the app lookup and the rate-limit
\* check have succeeded, with the mapping accumulated from the whole file
\* (empty or not); no remote call is made while lines are parsed, and none
\* if the file cannot be opened.
C6_SingleBatchUpdate ==
  op = "upload"
  => /\ Cardinality({i \in 1..Len(calls) : calls[i].name = "update_config"}) <= 1
     /\ pc = "parse" => calls = <<>>
     /\ error = "IOError" => calls = <<>>
     /\ idx <= Len(e) => calls = <<>>
     /\ \A i \in 1..Len(calls) :
          calls[i].name = "update_config"
          => /\ idx = Len(e) + 1
             /\ i = 3
             /\ calls[1].name = "apps" /\ calls[2].name = "ratelimit_remaining"
             /\ remote.contacted /\ remote.apps = "ok" /\ remote.remaining >= 1
             /\ calls[i].arg = config_dict
             /\ calls[i].arg = ParseTo(FileLines(file), set_alt,
                                       Len(FileLines(file))).config_dict

C6_Witness ==
  /\ op = "upload" /\ pc = "exit" /\ Len(e) >= 2
  /\ Called("update_config")
  /\ calls[3].arg # EmptyDict

\* C7: an upload ends with HerokuRunError exactly when update_config was
\* called and returned an empty mapping; the success summary is printed only
\* when it returned a non-empty mapping; no run both raises and prints it.
C7_UpdateFailure ==
  (op = "upload" /\ pc = "exit")
  => /\ error = "HerokuRunError" <=> (Called("update_config") /\ update_result = EmptyDict)
     /\ Echoed(Success) => (Called("update_config") /\ update_result # EmptyDict)
     /\ error # "none" => ~Echoed(Success)
     /\ (Called("update_config") /\ update_result # EmptyDict)
          => (error = "none" /\ Echoed(Success))

C7_Witness ==
  /\ op = "upload" /\ pc = "exit"
  /\ Called("update_config") /\ update_result = EmptyDict
  /\ error = "HerokuRunError"
  /\ config_dict # EmptyDict

C10_DumpWritesLast ==
  /\ touched
     => /\ op = "dump"
        /\ CallNames = <<"apps", "ratelimit_remaining", "get_config">>
        /\ remote.apps = "ok" /\ remote.remaining >= 1
  /\ io # "none"
     => /\ op = "dump"
        /\ CallNames = <<"apps", "ratelimit_remaining", "get_config">>
        /\ remote.apps = "ok" /\ remote.remaining >= 1
  /\ (op = "dump" /\ error # "none")
     => /\ ~touched /\ io = "none"
        /\ echo = <<>>
        /\ ~Called("get_config")
  /\ (op = "dump" /\ io \in {"open_fails", "write_fails"})
     => /\ pc = "exit" /\ error = "none"
        /\ echo = <<Notice(DumpFailed)>>
  /\ (op = "dump" /\ io = "ok")
     => /\ pc = "exit" /\ error = "none"
        /\ echo = <<Notice(DumpOk)>>

C10_Witness ==
  /\ op = "dump" /\ pc = "exit" /\ io = "write_fails" /\ touched
  /\ echo = <<Notice(DumpFailed)>> /\ error = "none"

\* A mapping the env file format can carry.
NoNewlineOrEq(t) == \A i \in 1..Len(t) : t[i] \notin {"=", NL, "\r"}
PlainValues(m) == \A i \in 1..Len(m) : m[i][2] = None \/ NoNewlineOrEq(m[i][2])
Representable(m) ==
  \A i \in 1..Len(m) :
    /\ m[i][1] # <<>> /\ NoNewlineOrEq(m[i][1])
    /\ m[i][1][1] \notin Whitespace \cup {"#"}
    /\ m[i][2] # None
    /\ m[i][2] = <<>> \/ m[i][2][Len(m[i][2])] \notin Whitespace

\* The upload parser (alt mode off) has read to the end a file written by a
\* dump of the mapping dumped.
ParsedBack ==
  /\ op = "upload" /\ ~set_alt /\ pc \in {"get_app", "update", "exit"}
  /\ error # "IOError"
  /\ dumped.known

\* C4 as stated: for a non-empty mapping M whose values contain no "=" and
\* no newline, parsing (alt mode off) the file written from M gives M
\* back, null values, values with leading or trailing whitespace and keys
\* beginning with "#" included.
C4_RoundTripAll ==
  (ParsedBack /\ dumped.items # <<>> /\ PlainValues(dumped.items))
  => config_dict = DictOf(dumped.items)

\* C4 as amended: the same, for mappings whose values are strings (not
\* null) without trailing whitespace and whose keys are non-empty, contain
\* no "=" or newline and begin neither with "#" nor with whitespace.
C4_RoundTripRepresentable ==
  (ParsedBack /\ dumped.items # <<>> /\ PlainValues(dumped.items)
     /\ Representable(dumped.items))
  => config_dict = DictOf(dumped.items)

C4_Witness ==
  /\ ParsedBack /\ Len(dumped.items) = 2 /\ Representable(dumped.items)
  /\ dumped.items[1][2] = <<" ", "x">> /\ dumped.items[2][2] = <<>>
  /\ config_dict = DictOf(dumped.items)

====
